---- MODULE Spec2Model ----
(***************************************************************************)
(* Model of backend/main.py: the FastAPI service "Asistente Personal       *)
(* Inteligente".  Four endpoints (GET /, POST /generar-lista-compra/,      *)
(* POST /sugerir-receta/, GET /listas), one table (listas_compra), one     *)
(* external text-generation provider.                                      *)
(*                                                                         *)
(* Handlers are coroutines on one event loop.  model.generate_content is a *)
(* blocking call, so a handler runs without interleaving from its first    *)
(* line to its first await; the awaits are database.execute (line 100) and *)
(* database.fetch_all (line 142).  Each handler is therefore cut at its    *)
(* await: the part before it, the data store serving the query, and the    *)
(* part after it.                                                          *)
(***************************************************************************)
EXTENDS Integers, Sequences, FiniteSets, TLC

(* ---------------------------------------------------------------- bounds *)

\* Number of HTTP requests issued in one run.
MaxReq == 2

\* Longest list of names in a request body of the prompt-rendering runs.
MaxLen == 2

Requests == 1..MaxReq

(* ------------------------------------------------ inputs of the requests *)

\* Bodies of RecetasInput.nombres_recetas the clients send.
\* The field is required, but the empty list validates.
NombresRecetasInputs == { <<>>, <<"Tortilla", "Ensalada">>, <<"Ensalada">> }

\* Bodies of ingredientes_disponibles the clients send (the default is []).
IngredientesInputs == { <<>>, <<"huevos", "patatas">> }

\* Every list of at most MaxLen names over an alphabet.
ListsOver(alphabet) == UNION { [1..n -> alphabet] : n \in 0..MaxLen }

\* The names the prompt-rendering runs draw from; list[str] admits "".
RecipeNames == { "Tortilla", "Ensalada" }
IngredientNames == { "huevos", "patatas", "" }

\* Texts response.text can hold when the provider answers; it is opaque to
\* the service, and nothing in the handler rules out the empty string.
ProviderTexts == { "", "Verduras: 2 cebollas" }

\* What the provider call does: generate_content raises, generate_content
\* returns but reading response.text raises, or the text is read.
ProviderOutcomes ==
    { [kind |-> "api_error", text |-> ""], [kind |-> "no_text", text |-> ""] }
    \cup { [kind |-> "ok", text |-> t] : t \in ProviderTexts }

(* ------------------------------------------------------ string formatting *)

\* sep.join(xs) of Python, folded from the left as str.join builds it.
RECURSIVE JoinFrom(_, _, _, _)
JoinFrom(sep, xs, i, acc) ==
    IF i > Len(xs) THEN acc
    ELSE JoinFrom(sep, xs, i + 1, IF i = 1 THEN xs[i] ELSE acc \o sep \o xs[i])

Join(sep, xs) == JoinFrom(sep, xs, 1, "")

\* The literal pieces of the f-string of generar_lista_compra (accented
\* letters are written unaccented here).
GenPre ==
    "\n    Eres un asistente de cocina experto. Tu tarea es crear una lista de compras detallada.\n\n"
    \o "    Basado en las siguientes recetas que el usuario quiere preparar:\n    - "

GenMid ==
    "\n\n    Y teniendo en cuenta que el usuario ya tiene los siguientes ingredientes en casa:\n    - "

GenPost ==
    "\n\n    Por favor, genera una lista de todos los ingredientes necesarios para preparar todas las recetas,\n"
    \o "    excluyendo los que el usuario ya tiene. Agrupa los ingredientes por categoria (ej. Verduras, Carnes, Lacteos, Despensa)\n"
    \o "    y especifica cantidades aproximadas si es posible. El formato de la respuesta debe ser claro y facil de leer.\n"
    \o "    No incluyas los nombres de las recetas en la lista final, solo los ingredientes a comprar.\n    "

\* The literal pieces of the f-string of sugerir_receta.
SugPre ==
    "\n    Eres un asistente de cocina creativo.\n"
    \o "    Basado en los siguientes ingredientes que el usuario ya tiene: "

SugPost ==
    ".\n\n    Sugiere una o dos recetas sencillas y deliciosas que se puedan preparar con esos ingredientes (se pueden anadir otros ingredientes comunes).\n"
    \o "    Devuelve unicamente los nombres de las recetas, separados por comas. Por ejemplo: \"Tortilla de patatas, Pollo al ajillo\".\n"
    \o "    No anadas explicaciones ni texto adicional, solo los nombres.\n    "

\* Mutant: the ingredient field rendered without the placeholder branch.
GenIngredientesTextoAlwaysJoined(ingredientes) == Join(", ", ingredientes)

\* Line 82: the interpolated ingredient field of the shopping-list prompt.
GenIngredientesTexto(ingredientes) ==
    IF ingredientes # <<>> THEN Join(", ", ingredientes) ELSE "Ninguno"

\* Line 119: ingredientes_texto of sugerir_receta.
SugIngredientesTexto(ingredientes) ==
    IF ingredientes # <<>> THEN Join(", ", ingredientes) ELSE "ninguno"

\* The prompt of generar_lista_compra as the sequence of the f-string's
\* parts: literal, recipe field, literal, ingredient field, literal.
GenPromptParts(nombres, ingredientes) ==
    << GenPre, Join(", ", nombres), GenMid, GenIngredientesTexto(ingredientes), GenPost >>

\* The prompt of sugerir_receta: literal, ingredient field, literal.
SugPromptParts(ingredientes) ==
    << SugPre, SugIngredientesTexto(ingredientes), SugPost >>

\* The rendered f-string: its parts concatenated.
Render(parts) == Join("", parts)

(* --------------------------------------------------------------- responses *)

ErrorListaCompra == "Error: No se pudo generar la lista de la compra."
ErrorSugerencia == "Error al generar sugerencia."
Bienvenida == "Bienvenido a la API de Asistente Personal Inteligente"

\* A handler that returns normally is answered with 200 by FastAPI; an
\* exception that leaves the handler is answered with 500.
Ok200(body) == [status |-> 200, body |-> body]
InternalServerError == [status |-> 500, body |-> [detail |-> "Internal Server Error"]]
NoResponse == [status |-> 0, body |-> [detail |-> ""]]

(* ------------------------------------------------------------------- state *)

VARIABLES
    table,      \* the rows of listas_compra, in insertion order
    nextId,     \* the next value of the autoincrement primary key
    endpoint,   \* endpoint[r]: the endpoint request r was sent to
    pc,         \* pc[r]: where the handler of request r stands
    input,      \* input[r]: the validated request body
    prompt,     \* prompt[r]: the prompt handed to generate_content
    provider,   \* provider[r]: what the provider call did
    local,      \* local[r]: lista_generada, and what the awaited query gave
                \* (the inserted key, the fetched rows, or that it raised)
    response    \* response[r]: the HTTP response, once sent

vars == << table, nextId, endpoint, pc, input, prompt, provider, local, response >>

NoInput == [nombres_recetas |-> <<>>, ingredientes_disponibles |-> <<>>]
NoProvider == [kind |-> "none", text |-> ""]
NoLocal == [lista_generada |-> "", inserted_id |-> 0, rows |-> <<>>, db_error |-> FALSE]

\* The service after start-up on a fresh data store: metadata.create_all
\* has created listas_compra, which holds no row, and no request has come.
Init ==
    /\ table = <<>>
    /\ nextId = 1
    /\ endpoint = [r \in Requests |-> "none"]
    /\ pc = [r \in Requests |-> "idle"]
    /\ input = [r \in Requests |-> NoInput]
    /\ prompt = [r \in Requests |-> <<>>]
    /\ provider = [r \in Requests |-> NoProvider]
    /\ local = [r \in Requests |-> NoLocal]
    /\ response = [r \in Requests |-> NoResponse]

\* Requests are numbered in the order they arrive.
Arrives(r) ==
    /\ pc[r] = "idle"
    /\ endpoint[r] = "none"
    /\ r > 1 => endpoint[r - 1] # "none"

(* ------------------------------------------------------------- data store *)

\* Mutant: the values of recetas and ingredientes_disponibles exchanged.
InsertRowSwapped(t, id, recetas, ingredientes, lista) ==
    Append(t, [id |-> id,
               recetas |-> ingredientes,
               ingredientes_disponibles |-> recetas,
               lista_generada |-> lista])

\* Mutant: an upsert keyed by recetas, overwriting the row of an earlier
\* request for the same recipes.
InsertRowUpsert(t, id, recetas, ingredientes, lista) ==
    LET new == [id |-> id,
                recetas |-> recetas,
                ingredientes_disponibles |-> ingredientes,
                lista_generada |-> lista]
    IN  IF \E i \in DOMAIN t : t[i].recetas = recetas
        THEN [i \in DOMAIN t |-> IF t[i].recetas = recetas THEN new ELSE t[i]]
        ELSE Append(t, new)

\* listas_compra.insert().values(...): one more row, keyed by the next id.
InsertRow(t, id, recetas, ingredientes, lista) ==
    Append(t, [id |-> id,
               recetas |-> recetas,
               ingredientes_disponibles |-> ingredientes,
               lista_generada |-> lista])

\* Mutant: a select that filters out the rows whose text is empty.
SelectNonEmpty(t) ==
    LET RECURSIVE Keep(_)
        Keep(u) == IF u = <<>> THEN <<>>
                   ELSE IF Head(u).lista_generada # "" THEN <<Head(u)>> \o Keep(Tail(u))
                   ELSE Keep(Tail(u))
    IN  Keep(t)

\* listas_compra.select(): every row, no filter.
SelectAll(t) == t

(* --------------------------------------------------------------- handlers *)

\* GET / : read_root, lines 67-69.
ReadRoot(r) ==
    /\ Arrives(r)
    /\ endpoint' = [endpoint EXCEPT ![r] = "root"]
    /\ pc' = [pc EXCEPT ![r] = "done"]
    /\ response' = [response EXCEPT ![r] = Ok200([mensaje |-> Bienvenida])]
    /\ UNCHANGED << table, nextId, input, prompt, provider, local >>

\* Mutant: the except clause keeps the placeholder as lista_generada and
\* falls through to the insert instead of returning.
GenerarListaCompraSavesPlaceholder(r) ==
    /\ Arrives(r)
    /\ \E nombres \in NombresRecetasInputs, ingredientes \in IngredientesInputs,
          out \in ProviderOutcomes :
          /\ endpoint' = [endpoint EXCEPT ![r] = "generar"]
          /\ input' = [input EXCEPT ![r] =
                 [nombres_recetas |-> nombres, ingredientes_disponibles |-> ingredientes]]
          /\ prompt' = [prompt EXCEPT ![r] = GenPromptParts(nombres, ingredientes)]
          /\ provider' = [provider EXCEPT ![r] = out]
          /\ local' = [local EXCEPT ![r].lista_generada =
                 IF out.kind = "ok" THEN out.text ELSE ErrorListaCompra]
          /\ pc' = [pc EXCEPT ![r] = "awaiting_insert"]
    /\ UNCHANGED << table, nextId, response >>

\* Mutant: no try around the provider call, so its exception leaves the
\* handler.
GenerarListaCompraUnguarded(r) ==
    /\ Arrives(r)
    /\ \E nombres \in NombresRecetasInputs, ingredientes \in IngredientesInputs,
          out \in ProviderOutcomes :
          /\ endpoint' = [endpoint EXCEPT ![r] = "generar"]
          /\ input' = [input EXCEPT ![r] =
                 [nombres_recetas |-> nombres, ingredientes_disponibles |-> ingredientes]]
          /\ prompt' = [prompt EXCEPT ![r] = GenPromptParts(nombres, ingredientes)]
          /\ provider' = [provider EXCEPT ![r] = out]
          /\ IF out.kind = "ok"
             THEN /\ local' = [local EXCEPT ![r].lista_generada = out.text]
                  /\ pc' = [pc EXCEPT ![r] = "awaiting_insert"]
                  /\ UNCHANGED response
             ELSE /\ pc' = [pc EXCEPT ![r] = "done"]
                  /\ response' = [response EXCEPT ![r] = InternalServerError]
                  /\ UNCHANGED local
    /\ UNCHANGED << table, nextId >>

\* POST /generar-lista-compra/ : lines 72-100, up to the await.  The prompt
\* is rendered, the provider is called; when the call or response.text
\* raises, the except clause answers at once, otherwise the insert is
\* issued and the handler waits for it.
GenerarListaCompra(r) ==
    /\ Arrives(r)
    /\ \E nombres \in NombresRecetasInputs, ingredientes \in IngredientesInputs,
          out \in ProviderOutcomes :
          /\ endpoint' = [endpoint EXCEPT ![r] = "generar"]
          /\ input' = [input EXCEPT ![r] =
                 [nombres_recetas |-> nombres, ingredientes_disponibles |-> ingredientes]]
          /\ prompt' = [prompt EXCEPT ![r] = GenPromptParts(nombres, ingredientes)]
          /\ provider' = [provider EXCEPT ![r] = out]
          /\ IF out.kind = "ok"
             THEN /\ local' = [local EXCEPT ![r].lista_generada = out.text]
                  /\ pc' = [pc EXCEPT ![r] = "awaiting_insert"]
                  /\ UNCHANGED response
             ELSE /\ pc' = [pc EXCEPT ![r] = "done"]
                  /\ response' = [response EXCEPT ![r] =
                         Ok200([lista_compra |-> ErrorListaCompra])]
                  /\ UNCHANGED local
    /\ UNCHANGED << table, nextId >>

\* The data store serves the insert of line 100: the row is written and its
\* key returned, or the query raises and nothing is written (the insert is
\* one statement, taken as atomic).
DatabaseExecute(r) ==
    /\ pc[r] = "awaiting_insert"
    /\ \/ /\ table' = InsertRow(table, nextId,
                          Join(", ", input[r].nombres_recetas),
                          Join(", ", input[r].ingredientes_disponibles),
                          local[r].lista_generada)
          /\ nextId' = nextId + 1
          /\ local' = [local EXCEPT ![r].inserted_id = nextId]
          /\ pc' = [pc EXCEPT ![r] = "insert_ok"]
       \/ /\ pc' = [pc EXCEPT ![r] = "insert_failed"]
          /\ local' = [local EXCEPT ![r].db_error = TRUE]
          /\ UNCHANGED << table, nextId >>
    /\ UNCHANGED << endpoint, input, prompt, provider, response >>

\* Mutant: the except clause answers with an empty string.
GenerarListaCompraResumeEmptyOnError(r) ==
    /\ pc[r] \in {"insert_ok", "insert_failed"}
    /\ response' = [response EXCEPT ![r] =
           IF pc[r] = "insert_failed"
           THEN Ok200([lista_compra |-> ""])
           ELSE Ok200([lista_compra |-> local[r].lista_generada])]
    /\ pc' = [pc EXCEPT ![r] = "done"]
    /\ UNCHANGED << table, nextId, endpoint, input, prompt, provider, local >>

\* Mutant: the insert's exception is swallowed on its own and the
\* generated text returned all the same.
GenerarListaCompraResumeReturnsText(r) ==
    /\ pc[r] \in {"insert_ok", "insert_failed"}
    /\ response' = [response EXCEPT ![r] =
           Ok200([lista_compra |-> local[r].lista_generada])]
    /\ pc' = [pc EXCEPT ![r] = "done"]
    /\ UNCHANGED << table, nextId, endpoint, input, prompt, provider, local >>

\* Mutant: lista_generada kept in a module-level variable shared by the
\* handlers, so the text returned is that of the latest insert.
GenerarListaCompraResumeSharedText(r) ==
    /\ pc[r] \in {"insert_ok", "insert_failed"}
    /\ response' = [response EXCEPT ![r] =
           IF pc[r] = "insert_failed"
           THEN Ok200([lista_compra |-> ErrorListaCompra])
           ELSE Ok200([lista_compra |-> table[Len(table)].lista_generada])]
    /\ pc' = [pc EXCEPT ![r] = "done"]
    /\ UNCHANGED << table, nextId, endpoint, input, prompt, provider, local >>

\* Lines 100-106, after the await: the except clause when the insert
\* raised, the final return otherwise.
GenerarListaCompraResume(r) ==
    /\ pc[r] \in {"insert_ok", "insert_failed"}
    /\ response' = [response EXCEPT ![r] =
           IF pc[r] = "insert_failed"
           THEN Ok200([lista_compra |-> ErrorListaCompra])
           ELSE Ok200([lista_compra |-> local[r].lista_generada])]
    /\ pc' = [pc EXCEPT ![r] = "done"]
    /\ UNCHANGED << table, nextId, endpoint, input, prompt, provider, local >>

\* Mutant: the suggestion saved as generar_lista_compra saves its list.
SugerirRecetaPersisting(r) ==
    /\ Arrives(r)
    /\ \E ingredientes \in IngredientesInputs, out \in ProviderOutcomes :
          /\ endpoint' = [endpoint EXCEPT ![r] = "sugerir"]
          /\ input' = [input EXCEPT ![r] =
                 [nombres_recetas |-> <<>>, ingredientes_disponibles |-> ingredientes]]
          /\ prompt' = [prompt EXCEPT ![r] = SugPromptParts(ingredientes)]
          /\ provider' = [provider EXCEPT ![r] = out]
          /\ response' = [response EXCEPT ![r] =
                 IF out.kind = "ok"
                 THEN Ok200([recetas_sugeridas |-> out.text])
                 ELSE Ok200([recetas_sugeridas |-> ErrorSugerencia])]
          /\ IF out.kind = "ok"
             THEN /\ table' = Append(table,
                         [id |-> nextId,
                          recetas |-> out.text,
                          ingredientes_disponibles |-> Join(", ", ingredientes),
                          lista_generada |-> ""])
                  /\ nextId' = nextId + 1
             ELSE UNCHANGED << table, nextId >>
    /\ pc' = [pc EXCEPT ![r] = "done"]
    /\ UNCHANGED local

\* POST /sugerir-receta/ : lines 116-135; the handler never awaits.
SugerirReceta(r) ==
    /\ Arrives(r)
    /\ \E ingredientes \in IngredientesInputs, out \in ProviderOutcomes :
          /\ endpoint' = [endpoint EXCEPT ![r] = "sugerir"]
          /\ input' = [input EXCEPT ![r] =
                 [nombres_recetas |-> <<>>, ingredientes_disponibles |-> ingredientes]]
          /\ prompt' = [prompt EXCEPT ![r] = SugPromptParts(ingredientes)]
          /\ provider' = [provider EXCEPT ![r] = out]
          /\ response' = [response EXCEPT ![r] =
                 IF out.kind = "ok"
                 THEN Ok200([recetas_sugeridas |-> out.text])
                 ELSE Ok200([recetas_sugeridas |-> ErrorSugerencia])]
    /\ pc' = [pc EXCEPT ![r] = "done"]
    /\ UNCHANGED << table, nextId, local >>

\* GET /listas : lines 139-142, up to the await.
ObtenerListasGuardadas(r) ==
    /\ Arrives(r)
    /\ endpoint' = [endpoint EXCEPT ![r] = "listas"]
    /\ pc' = [pc EXCEPT ![r] = "awaiting_fetch"]
    /\ UNCHANGED << table, nextId, input, prompt, provider, local, response >>

\* The data store serves the select of line 142: the rows, or the query
\* raises.
DatabaseFetchAll(r) ==
    /\ pc[r] = "awaiting_fetch"
    /\ \/ /\ local' = [local EXCEPT ![r].rows = SelectAll(table)]
          /\ pc' = [pc EXCEPT ![r] = "fetch_ok"]
       \/ /\ pc' = [pc EXCEPT ![r] = "fetch_failed"]
          /\ local' = [local EXCEPT ![r].db_error = TRUE]
    /\ UNCHANGED << table, nextId, endpoint, input, prompt, provider, response >>

\* Line 142, after the await: the rows are returned; no try surrounds the
\* await, so an exception of the query leaves the handler.
ObtenerListasGuardadasResume(r) ==
    /\ pc[r] \in {"fetch_ok", "fetch_failed"}
    /\ response' = [response EXCEPT ![r] =
           IF pc[r] = "fetch_failed"
           THEN InternalServerError
           ELSE Ok200([rows |-> local[r].rows])]
    /\ pc' = [pc EXCEPT ![r] = "done"]
    /\ UNCHANGED << table, nextId, endpoint, input, prompt, provider, local >>

Next ==
    \E r \in Requests :
        \/ ReadRoot(r)
        \/ GenerarListaCompra(r)
        \/ DatabaseExecute(r)
        \/ GenerarListaCompraResume(r)
        \/ SugerirReceta(r)
        \/ ObtenerListasGuardadas(r)
        \/ DatabaseFetchAll(r)
        \/ ObtenerListasGuardadasResume(r)

Spec == Init /\ [][Next]_vars

(* ------------------------------------------------- prompt rendering alone *)

\* The two prompt builders applied to every body of at most MaxLen names:
\* request 1 holds an arbitrary body, and either handler renders its prompt
\* from it (lines 75-88 and 119-128).
PromptInit ==
    /\ table = <<>>
    /\ nextId = 1
    /\ endpoint = [r \in Requests |-> "none"]
    /\ pc = [r \in Requests |-> "idle"]
    /\ \E nombres \in ListsOver(RecipeNames), ingredientes \in ListsOver(IngredientNames) :
          input = [r \in Requests |->
                     IF r = 1
                     THEN [nombres_recetas |-> nombres,
                           ingredientes_disponibles |-> ingredientes]
                     ELSE NoInput]
    /\ prompt = [r \in Requests |-> <<>>]
    /\ provider = [r \in Requests |-> NoProvider]
    /\ local = [r \in Requests |-> NoLocal]
    /\ response = [r \in Requests |-> NoResponse]

RenderGenerarPrompt ==
    /\ pc[1] = "idle"
    /\ endpoint' = [endpoint EXCEPT ![1] = "generar"]
    /\ prompt' = [prompt EXCEPT ![1] =
           GenPromptParts(input[1].nombres_recetas, input[1].ingredientes_disponibles)]
    /\ pc' = [pc EXCEPT ![1] = "rendered"]
    /\ UNCHANGED << table, nextId, input, provider, local, response >>

RenderSugerirPrompt ==
    /\ pc[1] = "idle"
    /\ endpoint' = [endpoint EXCEPT ![1] = "sugerir"]
    /\ prompt' = [prompt EXCEPT ![1] = SugPromptParts(input[1].ingredientes_disponibles)]
    /\ pc' = [pc EXCEPT ![1] = "rendered"]
    /\ UNCHANGED << table, nextId, input, provider, local, response >>

PromptNext == RenderGenerarPrompt \/ RenderSugerirPrompt

PromptSpec == PromptInit /\ [][PromptNext]_vars

(* ------------------------------------------------------------- vocabulary *)

IsGenerar(r) == endpoint[r] = "generar"
IsSugerir(r) == endpoint[r] = "sugerir"
IsListas(r) == endpoint[r] = "listas"
Done(r) == pc[r] = "done"

\* The provider call of r failed: generate_content or response.text raised.
ProviderFailed(r) == provider[r].kind \in {"api_error", "no_text"}
\* The provider call of r gave a text.
Generated(r) == provider[r].kind = "ok"
\* The insert of r was written (the awaited query returned its key).
Committed(r) == local[r].inserted_id # 0
\* The awaited query of r raised.
DbFailed(r) == local[r].db_error

\* The names of xs separated by ", ", in the order of xs: what the claims
\* mean by "joined"; written from the right, apart from Join.
RECURSIVE CommaSeparated(_)
CommaSeparated(xs) ==
    IF Len(xs) = 0 THEN ""
    ELSE IF Len(xs) = 1 THEN xs[1]
    ELSE xs[1] \o ", " \o CommaSeparated(Tail(xs))

PlaceholderResponse == [status |-> 200, body |-> [lista_compra |-> ErrorListaCompra]]
TextResponse(t) == [status |-> 200, body |-> [lista_compra |-> t]]

\* The rows of the table whose key is id.
RowsWithId(id) == { i \in DOMAIN table : table[i].id = id }

CommittedRequests == { r \in Requests : IsGenerar(r) /\ Committed(r) }

(* ------------------------------------------------------------------ claims *)

\* C1: when the provider call of POST /generar-lista-compra/ fails
\* (generate_content or response.text raises), the request is answered in
\* that same step with HTTP 200 and the fixed placeholder text, and the
\* table is the same after the request as before it.
C1_ProviderFailureKeepsTable ==
    [][\A r \in Requests :
          (pc[r] = "idle" /\ endpoint'[r] = "generar" /\ provider'[r].kind # "ok")
          => /\ pc'[r] = "done"
             /\ response'[r] = PlaceholderResponse
             /\ table' = table
             /\ nextId' = nextId
             /\ ~ Committed(r)']_vars

C1_Witness ==
    \E r \in Requests :
        /\ IsGenerar(r) /\ Done(r) /\ ProviderFailed(r)
        /\ response[r] = PlaceholderResponse
        /\ Len(table) = 1

\* C2 as stated: every request to POST /generar-lista-compra/ whose
\* generation succeeded has, once completed, exactly one row of its own in
\* the table, holding its joined recipe names and the text it returned.
C2_Original ==
    \A r \in Requests :
        (IsGenerar(r) /\ Done(r) /\ Generated(r))
        => /\ Cardinality(RowsWithId(local[r].inserted_id)) = 1
           /\ \A i \in RowsWithId(local[r].inserted_id) :
                 /\ table[i].recetas = CommaSeparated(input[r].nombres_recetas)
                 /\ table[i].lista_generada = response[r].body.lista_compra

\* C2 amended: the same for every request whose generation AND insert both
\* succeeded; and the table holds no row beyond those written by such
\* inserts (one per insert).
C2_OneRowPerSuccessfulRequest ==
    /\ \A r \in Requests :
          (IsGenerar(r) /\ Done(r) /\ Generated(r) /\ ~ DbFailed(r))
          => /\ Cardinality(RowsWithId(local[r].inserted_id)) = 1
             /\ \A i \in RowsWithId(local[r].inserted_id) :
                   /\ table[i].recetas = CommaSeparated(input[r].nombres_recetas)
                   /\ table[i].lista_generada = response[r].body.lista_compra
    /\ Len(table) = Cardinality(CommittedRequests)

C2_Witness ==
    \E r \in Requests :
        /\ IsGenerar(r) /\ Done(r) /\ Generated(r) /\ ~ DbFailed(r)
        /\ input[r].nombres_recetas = <<"Tortilla", "Ensalada">>
        /\ \E i \in DOMAIN table :
              /\ table[i].id = local[r].inserted_id
              /\ table[i].recetas = "Tortilla, Ensalada"
              /\ table[i].lista_generada = "Verduras: 2 cebollas"
        /\ response[r] = TextResponse("Verduras: 2 cebollas")

\* The generar-lista-compra calls that have completed with a successful
\* generation.
CompletedGenerated == { r \in Requests : IsGenerar(r) /\ Done(r) /\ Generated(r) }
\* Those that completed and returned the generated text.
CompletedSuccessful ==
    { r \in Requests : IsGenerar(r) /\ Done(r) /\ Generated(r) /\ ~ DbFailed(r) }
\* Those whose insert is written and whose response is still to be sent.
InsertedInFlight == { r \in Requests : IsGenerar(r) /\ Committed(r) /\ ~ Done(r) }

\* The step in which the data store serves the select of request r.
FetchServed(r) == pc[r] = "awaiting_fetch" /\ pc'[r] = "fetch_ok"

\* C3 as stated: the sequence GET /listas reads has as many rows as
\* generar-lista-compra calls completed before it with a successful
\* generation.
C3_Original ==
    [][\A r \in Requests :
          FetchServed(r) => Len(local'[r].rows) = Cardinality(CompletedGenerated)]_vars

\* C3 amended: the sequence GET /listas reads has as many rows as inserts
\* of generar-lista-compra calls were written before the read; that is at
\* least the number of calls completed with generation and insert both
\* successful, and exceeds it by at most the calls still in flight after
\* their insert.  The response carries exactly that sequence.
C3_LengthIsCommittedInserts ==
    [][\A r \in Requests :
          /\ FetchServed(r) =>
                /\ Len(local'[r].rows) = Cardinality(CommittedRequests)
                /\ Len(local'[r].rows) >= Cardinality(CompletedSuccessful)
                /\ Len(local'[r].rows) <=
                       Cardinality(CompletedSuccessful) + Cardinality(InsertedInFlight)
          /\ (pc[r] = "fetch_ok" /\ pc'[r] = "done") =>
                response'[r] = [status |-> 200, body |-> [rows |-> local[r].rows]]]_vars

C3_Witness ==
    \E r \in Requests :
        /\ IsListas(r) /\ Done(r)
        /\ response[r].status = 200
        /\ Len(local[r].rows) = 1
        /\ Cardinality(CompletedSuccessful) = 1

\* C4 as stated: the response of POST /generar-lista-compra/ always holds a
\* non-empty string under lista_compra.
C4_Original ==
    \A r \in Requests :
        (IsGenerar(r) /\ Done(r)) => response[r].body.lista_compra # ""

\* C4 amended: the response of POST /generar-lista-compra/ always holds
\* under lista_compra either the generated text or the fixed placeholder;
\* the placeholder is non-empty, and the string is empty only when the
\* provider's text itself is empty.
C4_ListaCompraIsTextOrPlaceholder ==
    /\ ErrorListaCompra # ""
    /\ \A r \in Requests :
          (IsGenerar(r) /\ Done(r))
          => /\ \/ response[r] = PlaceholderResponse
                \/ Generated(r) /\ response[r] = TextResponse(provider[r].text)
             /\ response[r] = TextResponse("") => Generated(r) /\ provider[r].text = ""

C4_Witness ==
    /\ \E r \in Requests :
          IsGenerar(r) /\ Done(r) /\ DbFailed(r) /\ response[r] = PlaceholderResponse
    /\ \E r \in Requests :
          IsGenerar(r) /\ Done(r) /\ response[r] = TextResponse("Verduras: 2 cebollas")

\* C5: POST /sugerir-receta/ never writes to the table: the request is
\* served in one step, whether the provider call succeeds or fails, and
\* that step leaves listas_compra and its key counter as they were.
C5_SugerirNeverPersists ==
    [][\A r \in Requests :
          (pc[r] # pc'[r] /\ endpoint'[r] = "sugerir")
          => /\ pc[r] = "idle" /\ pc'[r] = "done"
             /\ table' = table
             /\ nextId' = nextId
             /\ ~ Committed(r)']_vars

C5_Witness ==
    /\ table # <<>>
    /\ \E r \in Requests :
          /\ IsSugerir(r) /\ Done(r)
          /\ input[r].ingredientes_disponibles = <<"huevos", "patatas">>

\* C6: when generation succeeds and the insert fails, the caller gets
\* exactly the response of a failed generation (HTTP 200, the fixed
\* placeholder), not the generated text.
C6_InsertFailureLooksLikeGenerationFailure ==
    /\ \A r \in Requests :
          (IsGenerar(r) /\ Done(r) /\ Generated(r) /\ DbFailed(r))
          => /\ response[r] = PlaceholderResponse
             /\ response[r] # TextResponse(provider[r].text)
    /\ \A r1, r2 \in Requests :
          ( /\ IsGenerar(r1) /\ Done(r1) /\ ProviderFailed(r1)
            /\ IsGenerar(r2) /\ Done(r2) /\ Generated(r2) /\ DbFailed(r2) )
          => response[r1] = response[r2]

C6_Witness ==
    \E r1, r2 \in Requests :
        /\ IsGenerar(r1) /\ Done(r1) /\ ProviderFailed(r1)
        /\ IsGenerar(r2) /\ Done(r2) /\ Generated(r2) /\ DbFailed(r2)
        /\ provider[r2].text = "Verduras: 2 cebollas"

\* C7 as stated: on every endpoint a request that hits a failure of the
\* provider or of the data store still completes with status 200.
C7_Original ==
    \A r \in Requests :
        (Done(r) /\ (ProviderFailed(r) \/ DbFailed(r))) => response[r].status = 200

\* C7 amended: on GET /, POST /generar-lista-compra/ and
\* POST /sugerir-receta/ every request completes with status 200, whatever
\* the provider or the data store did; on GET /listas the request completes
\* with 200 when the select succeeds and with 500 when it raises.
C7_StatusByEndpoint ==
    \A r \in Requests :
        Done(r)
        => /\ endpoint[r] \in {"root", "generar", "sugerir"} => response[r].status = 200
           /\ IsListas(r) => response[r].status = IF DbFailed(r) THEN 500 ELSE 200

C7_Witness ==
    /\ \E r \in Requests :
          IsGenerar(r) /\ Done(r) /\ ProviderFailed(r) /\ response[r].status = 200
    /\ \E r \in Requests :
          IsListas(r) /\ Done(r) /\ DbFailed(r) /\ response[r].status = 500

\* C8: the table is append-only: every row of the table before a step is a
\* row of the table after it, unchanged, and the table never shrinks.
C8_AppendOnly ==
    [][/\ Len(table') >= Len(table)
       /\ \A i \in DOMAIN table : \E j \in DOMAIN table' : table'[j] = table[i]]_vars

C8_Witness ==
    /\ Len(table) = 2
    /\ table[1].recetas = table[2].recetas
    /\ table[1].lista_generada # table[2].lista_generada

\* What request r is answered, from its own provider and insert outcomes.
OwnResponse(r) ==
    IF Generated(r) /\ ~ DbFailed(r) THEN TextResponse(provider[r].text)
    ELSE PlaceholderResponse

\* The row request r writes, from its own body and generated text.
OwnRow(r) ==
    [id |-> local[r].inserted_id,
     recetas |-> CommaSeparated(input[r].nombres_recetas),
     ingredientes_disponibles |-> CommaSeparated(input[r].ingredientes_disponibles),
     lista_generada |-> provider[r].text]

\* C9: concurrent requests to POST /generar-lista-compra/ are independent
\* and not de-duplicated: in every interleaving each request's response and
\* row are those its own body and its own provider and insert outcomes
\* determine, and the table holds one row per request whose insert was
\* written, identical bodies included.  (The row's id is the key the store
\* hands out, in the order it serves the inserts.)
C9_RequestsAreIndependent ==
    /\ \A r \in Requests :
          IsGenerar(r)
          => /\ Done(r) => response[r] = OwnResponse(r)
             /\ Committed(r) <=> (Generated(r) /\ pc[r] \in {"insert_ok", "done"} /\ ~ DbFailed(r))
             /\ Committed(r) => { table[i] : i \in RowsWithId(local[r].inserted_id) } = { OwnRow(r) }
             /\ Committed(r) => Cardinality(RowsWithId(local[r].inserted_id)) = 1
    /\ \A r1, r2 \in CommittedRequests :
          r1 # r2 => local[r1].inserted_id # local[r2].inserted_id
    /\ Len(table) = Cardinality(CommittedRequests)

C9_Witness ==
    /\ pc[1] = "insert_ok" /\ pc[2] = "insert_ok"
    /\ IsGenerar(1) /\ IsGenerar(2)
    /\ input[1] = input[2]
    /\ provider[1] = provider[2]
    /\ Len(table) = 2
    /\ local[2].inserted_id < local[1].inserted_id

\* C10: the ingredient position of the prompt of either endpoint holds the
\* placeholder meaning "none" ("Ninguno" in generar_lista_compra, "ninguno"
\* in sugerir_receta), and not the empty joined string, when
\* ingredientes_disponibles is empty; it holds the ingredients separated by
\* ", " in input order when the list is not empty.
C10_IngredientPosition ==
    \A r \in Requests :
        LET ingredientes == input[r].ingredientes_disponibles
            expected(none) ==
                IF Len(ingredientes) = 0 THEN none ELSE CommaSeparated(ingredientes)
        IN  prompt[r] # <<>>
            => /\ IsGenerar(r)
                  => /\ Len(prompt[r]) = 5
                     /\ prompt[r][4] = expected("Ninguno")
                     /\ Len(ingredientes) = 0 => prompt[r][4] # ""
                     /\ Render(prompt[r]) =
                            GenPre \o CommaSeparated(input[r].nombres_recetas) \o GenMid
                            \o expected("Ninguno") \o GenPost
               /\ IsSugerir(r)
                  => /\ Len(prompt[r]) = 3
                     /\ prompt[r][2] = expected("ninguno")
                     /\ Len(ingredientes) = 0 => prompt[r][2] # ""
                     /\ Render(prompt[r]) = SugPre \o expected("ninguno") \o SugPost

C10_Witness ==
    /\ IsGenerar(1)
    /\ input[1].nombres_recetas = <<"Tortilla", "Ensalada">>
    /\ input[1].ingredientes_disponibles = <<>>
    /\ prompt[1] # <<>>
    /\ prompt[1][2] = "Tortilla, Ensalada"
    /\ prompt[1][4] = "Ninguno"

====
